---- MODULE Spec2Model ----
(***************************************************************************)
(* A model of the retrieval-and-response pipeline of basic-rag-demo:       *)
(* ChunkFinder.find_chunks (src/chunk_finder.py) and                       *)
(* ContextualResponder.get_response (src/contextual_responder.py) with the *)
(* two LLM clients it can be built on (src/chat_service.py,                *)
(* src/openai_chat_service.py).                                            *)
(*                                                                         *)
(* Text is a sequence of tokens.  A token is an indivisible piece of text: *)
(* a tag such as "<answer>", a marker such as "Answer:", a comma, a blank, *)
(* or a word.  Python's str operations (strip, split, replace, re.search)  *)
(* are modelled token by token.  A Document is a record with the field     *)
(* page_content; its metadata is never read by the code modelled here.     *)
(***************************************************************************)
EXTENDS Integers, Sequences, FiniteSets, TLC

VARIABLES
    self,               \* the ContextualResponder's fields set by __init__
    pc,                 \* position of the request in get_response / find_chunks
    query,              \* get_response argument
    display_context,    \* get_response argument
    num_chunks,         \* get_response / find_chunks argument
    keywords,           \* the list handed to find_chunks
    keyword_list,       \* find_chunks local: keywords without the empty ones
    chunks_per_keyword, \* find_chunks local
    extra_chunks,       \* find_chunks local
    keyword_docs,       \* find_chunks local: dict keyword -> docs, in insertion order
    idx,                \* position of the running for loop (1-based)
    added,              \* find_chunks local of the first pass
    combined_docs,      \* find_chunks local
    seen_content,       \* find_chunks local
    chunks,             \* value returned by find_chunks
    searches,           \* every vector_store.similarity_search call made, in order
    llm_calls,          \* every chat_sync call made, in order
    keywords_str,       \* get_response local: the keyword reply of the model
    response,           \* text returned by the answer chat_sync call
    context,            \* get_response local
    result,             \* value returned by get_response
    store_reachable,    \* whether Qdrant answers when the ChunkFinder is constructed
    stream,             \* the payload lines the Ollama server sends for one chat request
    line_no,            \* how many of them ChatService.chat has read
    fragments,          \* what ChatService.chat has yielded so far
    running,            \* DocumentProcessingWorker.running
    thread,             \* DocumentProcessingWorker.thread: 0 is None, i the i-th Thread created
    pollers,            \* the Thread objects created with target _run, in creation order
    callers,            \* the threads that call start() and stop(): where each one is
    input_files,        \* os.listdir("storage/input")
    output_files,       \* the files in storage/output
    attempts            \* every convert_document_to_markdown call made, in order

fcVars == <<keywords, num_chunks, keyword_list, chunks_per_keyword, extra_chunks,
            keyword_docs, idx, added, combined_docs, seen_content, chunks, searches>>
reqVars == <<self, query, display_context, llm_calls, keywords_str, response, context,
             result>>
envVars == <<store_reachable, stream, line_no, fragments>>
agentVars == <<running, thread, pollers, callers, input_files, output_files, attempts>>
vars == <<pc, fcVars, reqVars, envVars, agentVars>>

(***************************************************************************)
(* Bounds of the model.                                                    *)
(***************************************************************************)
MaxKeywords == 2
MaxBudget == 3
MaxHits == 2
MaxReplyLen == 5
MaxPassages == 3
MaxLines == 3

(***************************************************************************)
(* Integers and text.                                                      *)
(***************************************************************************)
Max(a, b) == IF a >= b THEN a ELSE b
Min(a, b) == IF a <= b THEN a ELSE b

SeqsUpTo(S, n) == UNION {[1..m -> S] : m \in 0..n}

IsSpace(t) == t \in {" ", "\n"}

RECURSIVE LStrip(_)
LStrip(s) == IF s # <<>> /\ IsSpace(Head(s)) THEN LStrip(Tail(s)) ELSE s

RECURSIVE RStrip(_)
RStrip(s) == IF s # <<>> /\ IsSpace(s[Len(s)]) THEN RStrip(SubSeq(s, 1, Len(s) - 1)) ELSE s

\* str.strip()
Strip(s) == RStrip(LStrip(s))

\* str.find from position `from`: the first index of token t at or after it, 0 if none
Find(s, t, from) ==
    LET hits == {i \in from..Len(s) : s[i] = t}
    IN IF hits = {} THEN 0 ELSE CHOOSE i \in hits : \A j \in hits : i <= j

\* str.split(sep): always at least one piece
RECURSIVE Split(_, _)
Split(s, sep) ==
    LET i == Find(s, sep, 1)
    IN IF i = 0 THEN <<s>>
       ELSE <<SubSeq(s, 1, i - 1)>> \o Split(SubSeq(s, i + 1, Len(s)), sep)

\* a comprehension that keeps each piece as it is
MapKeep(s) == s

\* [f(x) for x in s]
RECURSIVE MapStrip(_)
MapStrip(s) == IF s = <<>> THEN <<>> ELSE <<Strip(Head(s))>> \o MapStrip(Tail(s))

\* a filter that keeps the empty strings
KeepAll(s) == s

\* [x for x in s if x]
RECURSIVE NonEmpty(_)
NonEmpty(s) ==
    IF s = <<>> THEN <<>>
    ELSE (IF Head(s) # <<>> THEN <<Head(s)>> ELSE <<>>) \o NonEmpty(Tail(s))

(***************************************************************************)
(* Documents and the Evidence Store (Qdrant) as the retriever sees it.     *)
(***************************************************************************)
PlaceholderText == "This is a placeholder document for initialization."

Doc(content) == [page_content |-> content]

\* the contents the store holds in the model: two passages and the placeholder
DocPool == {Doc(<<"p1">>), Doc(<<"p2">>), Doc(<<PlaceholderText>>)}

\* what one similarity_search(keyword, k) call can do: raise, or return at most k docs
StoreOutcomesOver(pool, k) ==
    {[raised |-> TRUE, docs |-> <<>>]} \cup
    {[raised |-> FALSE, docs |-> d] : d \in SeqsUpTo(pool, Min(k, MaxHits))}

StoreOutcomes(k) == StoreOutcomesOver(DocPool, k)

\* "This is a placeholder document for initialization." not in doc.page_content
RECURSIVE FilterPlaceholder(_)
FilterPlaceholder(docs) ==
    IF docs = <<>> THEN <<>>
    ELSE (IF Find(Head(docs).page_content, PlaceholderText, 1) = 0
          THEN <<Head(docs)>> ELSE <<>>) \o FilterPlaceholder(Tail(docs))

(***************************************************************************)
(* keyword_docs is a Python dict: assigning an existing key keeps the      *)
(* key's position, assigning a new key appends it.                         *)
(***************************************************************************)
DictHas(d, k) == \E i \in 1..Len(d) : d[i].keyword = k

\* a dict whose existing keys keep their first value
DictSetKeepsFirst(d, k, v) ==
    IF DictHas(d, k) THEN d ELSE Append(d, [keyword |-> k, docs |-> v])

DictSet(d, k, v) ==
    IF DictHas(d, k)
    THEN [i \in 1..Len(d) |-> IF d[i].keyword = k THEN [keyword |-> k, docs |-> v] ELSE d[i]]
    ELSE Append(d, [keyword |-> k, docs |-> v])

(***************************************************************************)
(* ChunkFinder.find_chunks                                                 *)
(***************************************************************************)
SearchK(cpk) == cpk * 2

\* a share that rounds up instead of down
ChunksPerKeywordRoundedUp(n, len) == Max(1, (n + len - 1) \div len)

\* line 86
ChunksPerKeyword(n, len) == Max(1, n \div len)

\* an allocation that drops the remainder
ExtraChunksDropped(n, len) == 0

ExtraChunks(n, len) == n % len

\* the docs one pass takes from one keyword's list: in list order, those whose
\* content is not seen yet, each content once, until `limit` are taken
RECURSIVE TakeUnseen(_, _, _)
TakeUnseen(docs, seen, limit) ==
    IF docs = <<>> THEN <<>>
    ELSE IF Head(docs).page_content \notin seen /\ limit > 0
         THEN <<Head(docs)>> \o
              TakeUnseen(Tail(docs), seen \cup {Head(docs).page_content}, limit - 1)
         ELSE TakeUnseen(Tail(docs), seen, limit)

Contents(docs) == {docs[i].page_content : i \in 1..Len(docs)}

\* a failed search that leaves keyword_docs as it was (line 115 missing)
KeywordDocsAfterNoRecord(d, keyword, o) ==
    IF o.raised THEN d ELSE DictSet(d, keyword, FilterPlaceholder(o.docs))

\* lines 100-115: keyword_docs after the search for `keyword` ended with outcome o
KeywordDocsAfter(d, keyword, o) ==
    IF o.raised
    THEN DictSet(d, keyword, <<>>)
    ELSE DictSet(d, keyword, FilterPlaceholder(o.docs))

\* lines 76-93: drop empty keywords, return early or compute the allocation
FindChunks ==
    /\ pc = "find_chunks"
    /\ LET kl == NonEmpty(keywords)
       IN /\ keyword_list' = kl
          /\ IF kl = <<>>
             THEN /\ pc' = "returned"
                  /\ chunks' = <<>>
                  /\ UNCHANGED <<chunks_per_keyword, extra_chunks>>
             ELSE /\ pc' = "search"
                  /\ chunks_per_keyword' = ChunksPerKeyword(num_chunks, Len(kl))
                  /\ extra_chunks' = ExtraChunks(num_chunks, Len(kl))
                  /\ UNCHANGED chunks
    /\ keyword_docs' = <<>>
    /\ idx' = 1
    /\ UNCHANGED <<keywords, num_chunks, added, combined_docs, seen_content, searches>>
    /\ UNCHANGED reqVars
    /\ UNCHANGED envVars
    /\ UNCHANGED agentVars

\* a search loop that merges each keyword's passages as soon as they arrive
SearchMergesAtOnce(o) ==
    /\ pc = "search"
    /\ LET keyword == keyword_list[idx]
           search_k == SearchK(chunks_per_keyword)
           taken == TakeUnseen(FilterPlaceholder(o.docs), seen_content, chunks_per_keyword)
       IN /\ searches' = Append(searches, [keyword |-> keyword, k |-> search_k,
                                           raised |-> o.raised, docs |-> o.docs])
          /\ keyword_docs' = KeywordDocsAfter(keyword_docs, keyword, o)
          /\ combined_docs' = combined_docs \o taken
          /\ seen_content' = seen_content \cup Contents(taken)
    /\ IF idx < Len(keyword_list)
       THEN /\ idx' = idx + 1
            /\ UNCHANGED pc
       ELSE /\ idx' = 1
            /\ pc' = "first_pass"
    /\ UNCHANGED <<keywords, num_chunks, keyword_list, chunks_per_keyword, extra_chunks,
                   added, chunks>>
    /\ UNCHANGED reqVars
    /\ UNCHANGED envVars
    /\ UNCHANGED agentVars

\* a find_chunks whose result list and deduplication set are never created anew
SearchKeepsSeen(o) ==
    /\ pc = "search"
    /\ LET keyword == keyword_list[idx]
           search_k == SearchK(chunks_per_keyword)
       IN /\ searches' = Append(searches, [keyword |-> keyword, k |-> search_k,
                                           raised |-> o.raised, docs |-> o.docs])
          /\ keyword_docs' = KeywordDocsAfter(keyword_docs, keyword, o)
    /\ IF idx < Len(keyword_list)
       THEN /\ idx' = idx + 1
            /\ UNCHANGED pc
       ELSE /\ idx' = 1
            /\ pc' = "first_pass"
    /\ UNCHANGED <<keywords, num_chunks, keyword_list, chunks_per_keyword, extra_chunks,
                   added, chunks, combined_docs, seen_content>>
    /\ UNCHANGED reqVars
    /\ UNCHANGED envVars
    /\ UNCHANGED agentVars

\* lines 97-115: one iteration of the search loop, the store answering with o
Search(o) ==
    /\ pc = "search"
    /\ LET keyword == keyword_list[idx]
           search_k == SearchK(chunks_per_keyword)
       IN /\ searches' = Append(searches, [keyword |-> keyword, k |-> search_k,
                                           raised |-> o.raised, docs |-> o.docs])
          /\ keyword_docs' = KeywordDocsAfter(keyword_docs, keyword, o)
    /\ IF idx < Len(keyword_list)
       THEN /\ idx' = idx + 1
            /\ UNCHANGED <<pc, combined_docs, seen_content>>
       ELSE \* lines 118-119
            /\ idx' = 1
            /\ pc' = "first_pass"
            /\ combined_docs' = <<>>
            /\ seen_content' = {}
    /\ UNCHANGED <<keywords, num_chunks, keyword_list, chunks_per_keyword, extra_chunks,
                   added, chunks>>
    /\ UNCHANGED reqVars
    /\ UNCHANGED envVars
    /\ UNCHANGED agentVars

\* a first pass whose test reads added <= chunks_per_keyword
FirstPassTakeOffByOne(docs, seen, cpk) == TakeUnseen(docs, seen, cpk + 1)

\* lines 122-128: the docs the first pass takes from one keyword's list
FirstPassTake(docs, seen, cpk) == TakeUnseen(docs, seen, cpk)

\* keyword_docs.items() walked from the last key to the first
ItemDocsBackwards(d, i) == IF i <= Len(d) THEN d[Len(d) + 1 - i].docs ELSE <<>>

\* the docs of the idx-th item of keyword_docs.items(); an empty dict has no items
ItemDocs(d, i) == IF i <= Len(d) THEN d[i].docs ELSE <<>>

\* lines 122-128: one iteration of the first pass; after the last, line 131
FirstPass ==
    /\ pc = "first_pass"
    /\ LET taken == FirstPassTake(ItemDocs(keyword_docs, idx), seen_content, chunks_per_keyword)
       IN /\ combined_docs' = combined_docs \o taken
          /\ seen_content' = seen_content \cup Contents(taken)
          /\ added' = Len(taken)
          /\ IF idx < Len(keyword_docs)
             THEN /\ idx' = idx + 1
                  /\ UNCHANGED <<pc, chunks>>
             ELSE /\ idx' = 1
                  /\ IF extra_chunks > 0
                     THEN /\ pc' = "second_pass"
                          /\ UNCHANGED chunks
                     ELSE /\ pc' = "returned"
                          /\ chunks' = combined_docs \o taken
    /\ UNCHANGED <<keywords, num_chunks, keyword_list, chunks_per_keyword, extra_chunks,
                   keyword_docs, searches>>
    /\ UNCHANGED reqVars
    /\ UNCHANGED envVars
    /\ UNCHANGED agentVars

\* lines 132-143: one iteration of the second pass over keyword_docs
SecondPass ==
    /\ pc = "second_pass"
    /\ LET taken == TakeUnseen(ItemDocs(keyword_docs, idx), seen_content, extra_chunks)
           left == extra_chunks - Len(taken)
       IN /\ combined_docs' = combined_docs \o taken
          /\ seen_content' = seen_content \cup Contents(taken)
          /\ extra_chunks' = left
          /\ IF idx < Len(keyword_docs) /\ left > 0
             THEN /\ idx' = idx + 1
                  /\ UNCHANGED <<pc, chunks>>
             ELSE /\ idx' = 1
                  /\ pc' = "returned"
                  /\ chunks' = combined_docs \o taken
    /\ UNCHANGED <<keywords, num_chunks, keyword_list, chunks_per_keyword, keyword_docs,
                   added, searches>>
    /\ UNCHANGED reqVars
    /\ UNCHANGED envVars
    /\ UNCHANGED agentVars

\* find_chunks_by_query, lines 163-176, the store answering with o
FindChunksByQuery(o) ==
    /\ pc = "find_chunks_by_query"
    /\ searches' = Append(searches, [keyword |-> query, k |-> num_chunks,
                                     raised |-> o.raised, docs |-> o.docs])
    /\ chunks' = IF o.raised THEN <<>> ELSE FilterPlaceholder(o.docs)
    /\ pc' = "returned"
    /\ UNCHANGED <<keywords, num_chunks, keyword_list, chunks_per_keyword, extra_chunks,
                   keyword_docs, idx, added, combined_docs, seen_content>>
    /\ UNCHANGED reqVars
    /\ UNCHANGED envVars
    /\ UNCHANGED agentVars

(***************************************************************************)
(* The LLM clients.  One backend exchange is an outcome o: the text the    *)
(* backend delivered (for the streamed Ollama form, the fragments yielded  *)
(* before the stream ended or broke) and the error that ended it, if any.  *)
(* The error "null" stands for a reply without text: a streamed message    *)
(* whose content is null, a completion whose message.content is None.      *)
(***************************************************************************)
ErrorKinds == {"request", "json", "other"}

\* the backend delivered a message whose content is null (None in Python)
NullContent == "null"

\* Python's None where a text is expected: a token no text holds
PyNone == <<"<None>">>

\* str(e), whatever the exception says
ExceptionText == "e"

\* chat_service.py lines 88-96: the fragment the streamed form yields on an error
OllamaErrorText(error) ==
    CASE error = "request" -> <<"Error:", " ", ExceptionText>>
      [] error = "json" -> <<"Error decoding response:", " ", ExceptionText>>
      [] error = "other" -> <<"Unexpected error:", " ", ExceptionText>>
      [] OTHER -> <<>>

\* the lines response.iter_lines() can deliver, and the loss of the connection
\* (requests.post, raise_for_status or iter_lines raising a RequestException)
PayloadLines ==
    {[kind |-> "message", content |-> <<"x">>, done |-> d] : d \in BOOLEAN} \cup
    {[kind |-> "no_message", content |-> <<>>, done |-> d] : d \in BOOLEAN} \cup
    {[kind |-> k, content |-> <<>>, done |-> FALSE] :
        k \in {"blank", "null_content", "not_json", "not_object", "connection_lost"}}

\* chat_service.py lines 73-96: what reading one line makes chat() yield, and
\* whether the generator ends with it
ChatLineEffect(l) ==
    CASE l.kind = "blank" -> [yield |-> <<>>, stop |-> FALSE]
      [] l.kind = "message" -> [yield |-> <<l.content>>, stop |-> l.done]
      [] l.kind = "null_content" -> [yield |-> <<PyNone>>, stop |-> l.done]
      [] l.kind = "no_message" -> [yield |-> <<>>, stop |-> l.done]
      [] l.kind = "not_json" -> [yield |-> <<OllamaErrorText("json")>>, stop |-> TRUE]
      [] l.kind = "not_object" -> [yield |-> <<OllamaErrorText("other")>>, stop |-> TRUE]
      [] l.kind = "connection_lost" -> [yield |-> <<OllamaErrorText("request")>>, stop |-> TRUE]

\* ''.join(fragments)
RECURSIVE Join(_)
Join(fs) == IF fs = <<>> THEN <<>> ELSE Head(fs) \o Join(Tail(fs))

\* chat_service.py lines 67-96: chat() reads the next line of the stream, or
\* finds the stream at its end
Chat ==
    /\ pc = "chat"
    /\ IF line_no = Len(stream)
       THEN /\ pc' = "chat_sync"
            /\ UNCHANGED <<line_no, fragments>>
       ELSE LET e == ChatLineEffect(stream[line_no + 1])
            IN /\ line_no' = line_no + 1
               /\ fragments' = fragments \o e.yield
               /\ pc' = IF e.stop THEN "chat_sync" ELSE "chat"
    /\ UNCHANGED <<store_reachable, stream>>
    /\ UNCHANGED fcVars
    /\ UNCHANGED reqVars
    /\ UNCHANGED agentVars

\* chat_service.py line 125: str.join raises TypeError on a fragment that is no str
ChatSyncJoin ==
    /\ pc = "chat_sync"
    /\ IF \E i \in 1..Len(fragments) : fragments[i] = PyNone
       THEN /\ pc' = "chat_raised"
            /\ UNCHANGED response
       ELSE /\ pc' = "chat_returned"
            /\ response' = Join(fragments)
    /\ UNCHANGED <<self, query, display_context, llm_calls, keywords_str, context, result>>
    /\ UNCHANGED fcVars
    /\ UNCHANGED envVars
    /\ UNCHANGED agentVars

\* chat_service.py lines 116-125: every fragment of chat(), joined; a fragment
\* that is None makes str.join raise
OllamaChatSync(o) ==
    IF o.error = NullContent THEN [raised |-> TRUE, text |-> <<>>]
    ELSE [raised |-> FALSE, text |-> o.text \o OllamaErrorText(o.error)]

NoApiKeyText == <<"Error:", " ", "No OpenAI API key provided">>

\* a chat_sync without the test of lines 122-124: the call is made without a key
OpenAIChatSyncNoKeyCheck(api_key, o) ==
    IF o.error # "none" THEN [raised |-> FALSE, text |-> <<"Error:", " ", ExceptionText>>]
    ELSE [raised |-> FALSE, text |-> o.text]

\* openai_chat_service.py lines 122-154; line 148 returns message.content as it
\* is, None included
OpenAIChatSync(api_key, o) ==
    IF ~api_key THEN [raised |-> FALSE, text |-> NoApiKeyText]
    ELSE IF o.error = NullContent THEN [raised |-> FALSE, text |-> PyNone]
    ELSE IF o.error # "none" THEN [raised |-> FALSE, text |-> <<"Error:", " ", ExceptionText>>]
    ELSE [raised |-> FALSE, text |-> o.text]

\* self.chat_service.chat_sync(...)
ChatSync(responder, o) ==
    IF responder.service_type = "openai"
    THEN OpenAIChatSync(responder.api_key, o)
    ELSE OllamaChatSync(o)

LLMOutcomes(texts, errors) == {[text |-> t, error |-> e] : t \in texts, e \in errors}

(***************************************************************************)
(* ContextualResponder                                                     *)
(***************************************************************************)
\* the built-in templates of _load_keyword_prompt and _load_context_prompt
FallbackKeywordPrompt ==
    <<"Extract the most important keywords from this query: ", "{{USER_QUERY}}",
      "\n\nOutput only the keywords as a comma-separated list.">>

FallbackContextPrompt ==
    <<"Answer the following question based on the provided context:\n\nContext: ",
      "{{CONTEXT}}", "\n\nQuestion: ", "{{USER_QUERY}}", "\n\nAnswer:">>

\* __init__, lines 34-61
Responder(model_name, service_type, api_key) ==
    [model_name |-> IF service_type = "openai" /\ model_name = "llama3:8b"
                    THEN "gpt-3.5-turbo" ELSE model_name,
     collection_name |-> "documents",
     service_type |-> service_type,
     api_key |-> api_key,
     keyword_prompt_template |-> FallbackKeywordPrompt,
     context_prompt_template |-> FallbackContextPrompt]

\* the caller of a constructor that raised holds no instance
NoResponder == [constructed |-> FALSE]

\* a ChunkFinder.__init__ whose except clause logs and goes on
ChunkFinderInitLogsOnly(reachable) == [raised |-> FALSE]

\* ChunkFinder.__init__, lines 37-53: Qdrant.from_documents raises when the
\* server is not reachable; the except clause logs and re-raises
ChunkFinderInit(reachable) == [raised |-> ~reachable]

\* ContextualResponder.__init__: line 41 constructs the ChunkFinder first, and
\* nothing catches what it raises
Construct(model_name, service_type, api_key) ==
    /\ pc = "construct"
    /\ IF ChunkFinderInit(store_reachable).raised
       THEN /\ pc' = "construct_raised"
            /\ self' = NoResponder
       ELSE /\ pc' = "get_response"
            /\ self' = Responder(model_name, service_type, api_key)
    /\ UNCHANGED <<query, display_context, llm_calls, keywords_str, response, context, result>>
    /\ UNCHANGED fcVars
    /\ UNCHANGED envVars
    /\ UNCHANGED agentVars

\* str.replace(old, new): every occurrence of the token old
RECURSIVE Replace(_, _, _)
Replace(s, old, new) ==
    IF s = <<>> THEN <<>>
    ELSE (IF Head(s) = old THEN new ELSE <<Head(s)>>) \o Replace(Tail(s), old, new)

\* re.search(open + r'(.*?)' + close, s, re.DOTALL): the first open tag that a
\* close tag follows, and the text up to the first close tag after it
TagSearch(s, open, close) ==
    LET i == Find(s, open, 1)
        j == IF i = 0 THEN 0 ELSE Find(s, close, i + 1)
    IN IF j = 0 THEN [found |-> FALSE, group |-> <<>>]
       ELSE [found |-> TRUE, group |-> SubSeq(s, i + 1, j - 1)]

\* a marker search compiled with re.IGNORECASE
MarkerSearchIgnoreCase(s) ==
    LET hits == {i \in 1..Len(s) : s[i] \in {"Answer:", "Response:", "answer:"}}
    IN IF hits = {} THEN [found |-> FALSE, group |-> <<>>]
       ELSE LET i == CHOOSE h \in hits : \A g \in hits : h <= g
            IN [found |-> TRUE, group |-> LStrip(SubSeq(s, i + 1, Len(s)))]

\* re.search(r'(?:Answer|Response):\s*(.*)', s, re.DOTALL)
MarkerSearch(s) ==
    LET hits == {i \in 1..Len(s) : s[i] \in {"Answer:", "Response:"}}
    IN IF hits = {} THEN [found |-> FALSE, group |-> <<>>]
       ELSE LET i == CHOOSE h \in hits : \A g \in hits : h <= g
            IN [found |-> TRUE, group |-> LStrip(SubSeq(s, i + 1, Len(s)))]

\* an extraction that never looks for the tag
ExtractKeywordsNoTag(reply) == MapStrip(Split(reply, ","))

\* lines 113-121
ExtractKeywords(reply) ==
    LET m == TagSearch(reply, "<keywords>", "</keywords>")
    IN IF m.found THEN MapStrip(Split(Strip(m.group), ","))
       ELSE MapStrip(Split(reply, ","))

\* an extraction that takes the tag's content even when it is empty
ExtractAnswerFirstMatchWins(reply) ==
    LET m == TagSearch(reply, "<answer>", "</answer>")
        n == MarkerSearch(reply)
    IN IF m.found THEN Strip(m.group)
       ELSE IF n.found /\ Strip(n.group) # <<>> THEN Strip(n.group)
       ELSE reply

\* an extraction whose last fallback returns the stripped response
ExtractAnswerStripsFallback(reply) ==
    LET m == TagSearch(reply, "<answer>", "</answer>")
        tagged == IF m.found THEN Strip(m.group) ELSE <<>>
        n == MarkerSearch(reply)
        answer == IF tagged # <<>> THEN tagged
                  ELSE IF n.found THEN Strip(n.group) ELSE tagged
    IN IF answer # <<>> THEN answer ELSE Strip(reply)

\* lines 186-206: the answer taken from the model's response
ExtractAnswer(reply) ==
    LET m == TagSearch(reply, "<answer>", "</answer>")
        tagged == IF m.found THEN Strip(m.group) ELSE <<>>
        n == MarkerSearch(reply)
        answer == IF tagged # <<>> THEN tagged
                  ELSE IF n.found THEN Strip(n.group) ELSE tagged
    IN IF answer # <<>> THEN answer ELSE reply

\* a numbering that starts at 0 (enumerate's index used as it is)
RECURSIVE ContextPartsZeroBased(_, _)
ContextPartsZeroBased(docs, i) ==
    IF docs = <<>> THEN <<>>
    ELSE <<"Document ", ToString(i - 1), ":\n">> \o Head(docs).page_content \o <<"\n">>
         \o (IF Tail(docs) = <<>> THEN <<>>
             ELSE <<"\n">> \o ContextPartsZeroBased(Tail(docs), i + 1))

\* lines 150-156
RECURSIVE ContextParts(_, _)
ContextParts(docs, i) ==
    IF docs = <<>> THEN <<>>
    ELSE <<"Document ", ToString(i), ":\n">> \o Head(docs).page_content \o <<"\n">>
         \o (IF Tail(docs) = <<>> THEN <<>> ELSE <<"\n">> \o ContextParts(Tail(docs), i + 1))

BuildContextFromChunks(docs) == ContextParts(docs, 1)

SystemMessage ==
    "You are a helpful AI assistant. Answer the user's question to the best of your ability."

ContextPrompt(responder, q, ctx) ==
    Replace(Replace(responder.context_prompt_template, "{{CONTEXT}}", ctx),
            "{{USER_QUERY}}", q)

DirectPrompt(q) == <<"System: ", SystemMessage, "\n\nUser: ">> \o q

\* a return statement that ignores display_context
ReturnedBare(text, p, display) == [type |-> "str", answer |-> text]

\* the two shapes of get_response's value: a str, or a tuple (answer, prompt)
Str(text) == [type |-> "str", answer |-> text]
Tuple(text, p) == [type |-> "tuple", answer |-> text, prompt |-> p]
Returned(text, p, display) == IF display THEN Tuple(text, p) ELSE Str(text)

ChatCall(responder, user, system) ==
    [model |-> responder.model_name, user_prompt |-> user, system_message |-> system]

\* lines 104-126: the keyword call, the keywords, the call of find_chunks
GetResponse(o) ==
    /\ pc = "get_response"
    /\ LET user_prompt == Replace(self.keyword_prompt_template, "{{USER_QUERY}}", query)
           r == ChatSync(self, o)
       IN /\ llm_calls' = Append(llm_calls, ChatCall(self, user_prompt, "None"))
          /\ IF r.raised \/ r.text = PyNone   \* re.search(..., None) raises TypeError
             THEN /\ pc' = "raised"
                  /\ UNCHANGED <<keywords_str, keywords>>
             ELSE /\ pc' = "find_chunks"
                  /\ keywords_str' = r.text
                  /\ keywords' = ExtractKeywords(r.text)
    /\ UNCHANGED <<self, query, display_context, response, context, result>>
    /\ UNCHANGED <<num_chunks, keyword_list, chunks_per_keyword, extra_chunks,
                   keyword_docs, idx, added, combined_docs, seen_content, chunks, searches>>
    /\ UNCHANGED envVars
    /\ UNCHANGED agentVars

\* a get_response that asks for keywords again when nothing was retrieved
RetrievedAsksAgain ==
    /\ pc = "returned"
    /\ IF chunks = <<>>
       THEN /\ pc' = "get_response"
            /\ UNCHANGED context
       ELSE /\ pc' = "contextual"
            /\ context' = BuildContextFromChunks(chunks)
    /\ UNCHANGED <<self, query, display_context, llm_calls, keywords_str, response, result>>
    /\ UNCHANGED fcVars
    /\ UNCHANGED envVars
    /\ UNCHANGED agentVars

\* lines 128-135: find_chunks has returned
Retrieved ==
    /\ pc = "returned"
    /\ IF chunks = <<>>
       THEN /\ pc' = "direct"
            /\ UNCHANGED context
       ELSE /\ pc' = "contextual"
            /\ context' = BuildContextFromChunks(chunks)
    /\ UNCHANGED <<self, query, display_context, llm_calls, keywords_str, response, result>>
    /\ UNCHANGED fcVars
    /\ UNCHANGED envVars
    /\ UNCHANGED agentVars

\* line 134 on its own: _build_context_from_chunks(chunks) for any list of chunks,
\* followed by line 138
BuildContext ==
    /\ pc = "build_context"
    /\ context' = BuildContextFromChunks(chunks)
    /\ pc' = "contextual"
    /\ UNCHANGED <<self, query, display_context, llm_calls, keywords_str, response, result>>
    /\ UNCHANGED fcVars
    /\ UNCHANGED envVars
    /\ UNCHANGED agentVars

\* a direct branch that runs the answer extraction on the response
DirectResultExtracted(text, q, display) ==
    Returned(ExtractAnswer(text), DirectPrompt(q), display)

\* lines 232-236: the value _get_direct_response returns
DirectResult(text, q, display) == Returned(text, DirectPrompt(q), display)

\* _get_direct_response, lines 219-236
GetDirectResponse(o) ==
    /\ pc = "direct"
    /\ LET r == ChatSync(self, o)
       IN /\ llm_calls' = Append(llm_calls, ChatCall(self, query, SystemMessage))
          /\ IF r.raised
             THEN /\ pc' = "raised"
                  /\ UNCHANGED <<response, result>>
             ELSE /\ pc' = "done"
                  /\ response' = r.text
                  /\ result' = DirectResult(r.text, query, display_context)
    /\ UNCHANGED <<self, query, display_context, keywords_str, context>>
    /\ UNCHANGED fcVars
    /\ UNCHANGED envVars
    /\ UNCHANGED agentVars

\* _get_contextual_response, lines 170-206
GetContextualResponse(o) ==
    /\ pc = "contextual"
    /\ LET prompt == ContextPrompt(self, query, context)
           r == ChatSync(self, o)
       IN /\ llm_calls' = Append(llm_calls, ChatCall(self, prompt, "None"))
          /\ IF r.raised \/ r.text = PyNone   \* re.search(..., None) raises TypeError
             THEN /\ pc' = "raised"
                  /\ UNCHANGED <<response, result>>
             ELSE /\ pc' = "done"
                  /\ response' = r.text
                  /\ result' = Returned(ExtractAnswer(r.text), prompt, display_context)
    /\ UNCHANGED <<self, query, display_context, keywords_str, context>>
    /\ UNCHANGED fcVars
    /\ UNCHANGED envVars
    /\ UNCHANGED agentVars

(***************************************************************************)
(* find_chunks on its own: any keyword list, any budget, any store.        *)
(***************************************************************************)
KeywordPool == {<<>>, <<"a">>, <<"b">>}
KeywordLists == SeqsUpTo(KeywordPool, MaxKeywords)
Budgets == (-1)..MaxBudget

\* a constructed ChunkFinder, no chat request under way
\* no DocumentProcessingWorker constructed, the storage directories empty
NoWorker ==
    /\ running = FALSE
    /\ thread = 0
    /\ pollers = <<>>
    /\ callers = <<>>
    /\ input_files = <<>>
    /\ output_files = {}
    /\ attempts = <<>>

EnvInit ==
    /\ store_reachable = TRUE
    /\ stream = <<>>
    /\ line_no = 0
    /\ fragments = <<>>
    /\ NoWorker

\* no get_response call under way
RequestIdle ==
    /\ self = Responder("llama3:8b", "ollama", FALSE)
    /\ query = <<>>
    /\ display_context = FALSE
    /\ llm_calls = <<>>
    /\ keywords_str = <<>>
    /\ response = <<>>
    /\ context = <<>>
    /\ result = [type |-> "none"]

NoRequest ==
    /\ EnvInit
    /\ RequestIdle

FindChunksLocalsInit ==
    /\ keyword_list = <<>>
    /\ chunks_per_keyword = 0
    /\ extra_chunks = 0
    /\ keyword_docs = <<>>
    /\ idx = 1
    /\ added = 0
    /\ combined_docs = <<>>
    /\ seen_content = {}
    /\ chunks = <<>>
    /\ searches = <<>>

InitChunks ==
    /\ pc = "find_chunks"
    /\ keywords \in KeywordLists
    /\ num_chunks \in Budgets
    /\ FindChunksLocalsInit
    /\ NoRequest

SearchAny ==
    /\ pc = "search"
    /\ \E o \in StoreOutcomes(SearchK(chunks_per_keyword)) : Search(o)

NextChunks ==
    \/ FindChunks
    \/ SearchAny
    \/ FirstPass
    \/ SecondPass

SpecChunks == InitChunks /\ [][NextChunks]_vars

(***************************************************************************)
(* The placeholder filter: find_chunks and find_chunks_by_query over a     *)
(* store that holds a passage, the placeholder, and a passage that quotes  *)
(* the placeholder sentence inside longer text.                            *)
(***************************************************************************)
FilterDocPool ==
    {Doc(<<"p1">>), Doc(<<PlaceholderText>>), Doc(<<"p1", " ", PlaceholderText>>)}

InitFilter ==
    /\ pc \in {"find_chunks", "find_chunks_by_query"}
    /\ keywords \in KeywordLists
    /\ num_chunks \in Budgets
    /\ FindChunksLocalsInit
    /\ NoRequest

SearchFilter ==
    /\ pc = "search"
    /\ \E o \in StoreOutcomesOver(FilterDocPool, SearchK(chunks_per_keyword)) : Search(o)

FindChunksByQueryAny ==
    /\ pc = "find_chunks_by_query"
    /\ \E o \in StoreOutcomesOver(FilterDocPool, Max(num_chunks, 0)) : FindChunksByQuery(o)

NextFilter ==
    \/ FindChunks
    \/ SearchFilter
    \/ FirstPass
    \/ SecondPass
    \/ FindChunksByQueryAny

SpecFilter == InitFilter /\ [][NextFilter]_vars

(***************************************************************************)
(* The scenario keywords = ["alpha", "beta", "gamma"] with the default     *)
(* budget.  Each keyword's search returns, in the store's order, some of:  *)
(* four passages of the keyword's own, one passage every keyword can hit,  *)
(* and the placeholder; at least chunks_per_keyword of them, at most k.    *)
(***************************************************************************)
DefaultNumChunks == 10

ScenarioKeywords == << <<"alpha">>, <<"beta">>, <<"gamma">> >>

ScenarioPool(keyword) ==
    << Doc(keyword \o <<"1">>), Doc(keyword \o <<"2">>), Doc(keyword \o <<"3">>),
       Doc(keyword \o <<"4">>), Doc(<<"shared">>), Doc(<<PlaceholderText>>) >>

\* the subsequence of s at the positions in I
RECURSIVE SubSeqAt(_, _)
SubSeqAt(s, I) ==
    IF s = <<>> THEN <<>>
    ELSE SubSeqAt(SubSeq(s, 1, Len(s) - 1), I) \o
         (IF Len(s) \in I THEN <<s[Len(s)]>> ELSE <<>>)

ScenarioOutcomes(keyword, cpk) ==
    {[raised |-> FALSE, docs |-> SubSeqAt(ScenarioPool(keyword), I)] :
        I \in {J \in SUBSET (1..Len(ScenarioPool(keyword))) :
                  Cardinality(J) >= cpk /\ Cardinality(J) <= SearchK(cpk)}}

InitScenario ==
    /\ pc = "find_chunks"
    /\ keywords = ScenarioKeywords
    /\ num_chunks = DefaultNumChunks
    /\ FindChunksLocalsInit
    /\ NoRequest

SearchScenario ==
    /\ pc = "search"
    /\ \E o \in ScenarioOutcomes(keyword_list[idx], chunks_per_keyword) : Search(o)

NextScenario ==
    \/ FindChunks
    \/ SearchScenario
    \/ FirstPass
    \/ SecondPass

SpecScenario == InitScenario /\ [][NextScenario]_vars

(***************************************************************************)
(* find_chunks for three keywords, repeats allowed, with the budgets 5     *)
(* (perKeyword 1, remainder 2) and 8 (perKeyword 2, remainder 2).  Each    *)
(* keyword's search raises or returns, in the store's order, at most k of: *)
(* three passages of the keyword's own and one passage every keyword can   *)
(* hit.                                                                    *)
(***************************************************************************)
TripleLists ==
    { << <<"alpha">>, <<"beta">>, <<"gamma">> >>,
      << <<"alpha">>, <<"beta">>, <<"alpha">> >>,
      << <<"alpha">>, <<"alpha">>, <<"beta">> >> }

TripleBudgets == {5, 8}

TriplePool(keyword) ==
    << Doc(keyword \o <<"1">>), Doc(keyword \o <<"2">>), Doc(keyword \o <<"3">>),
       Doc(<<"shared">>) >>

TripleOutcomes(keyword, k) ==
    {[raised |-> TRUE, docs |-> <<>>]} \cup
    {[raised |-> FALSE, docs |-> SubSeqAt(TriplePool(keyword), I)] :
        I \in {J \in SUBSET (1..Len(TriplePool(keyword))) : Cardinality(J) <= k}}

InitTriple ==
    /\ pc = "find_chunks"
    /\ keywords \in TripleLists
    /\ num_chunks \in TripleBudgets
    /\ FindChunksLocalsInit
    /\ NoRequest

SearchTriple ==
    /\ pc = "search"
    /\ \E o \in TripleOutcomes(keyword_list[idx], SearchK(chunks_per_keyword)) : Search(o)

NextTriple ==
    \/ FindChunks
    \/ SearchTriple
    \/ FirstPass
    \/ SecondPass

SpecTriple == InitTriple /\ [][NextTriple]_vars

(***************************************************************************)
(* get_response: requests to a constructed responder.                      *)
(***************************************************************************)
Responders ==
    {Responder("llama3:8b", "ollama", FALSE),
     Responder("llama3:8b", "openai", TRUE),
     Responder("llama3:8b", "openai", FALSE)}

Queries == {<<"What is X?">>}

RequestBudgets == {-1, 0, 1, DefaultNumChunks}

\* what the model may say when asked for keywords
KeywordReplies ==
    {<<>>, <<",">>, <<" ", ",", " ">>, <<"a">>, <<"a", ",", "b">>, <<"a", ",", " ", "a">>,
     <<"<keywords>", "a", ",", "b", "</keywords>">>, <<"<keywords>", " ", "</keywords>">>}

\* what the model may say when asked for the answer
AnswerReplies ==
    {<<>>, <<"x">>, <<"<answer>", "x", "</answer>">>, <<"<answer>", "</answer>">>,
     <<"Answer:", " ", "x">>}

RequestErrors == {"none"} \cup ErrorKinds

RequestDocPool == {Doc(<<"p1">>), Doc(<<PlaceholderText>>)}

RequestInit(responders, budgets) ==
    /\ pc = "get_response"
    /\ self \in responders
    /\ query \in Queries
    /\ display_context \in BOOLEAN
    /\ num_chunks \in budgets
    /\ keywords = <<>>
    /\ FindChunksLocalsInit
    /\ llm_calls = <<>>
    /\ keywords_str = <<>>
    /\ response = <<>>
    /\ context = <<>>
    /\ result = [type |-> "none"]
    /\ EnvInit

Init == RequestInit(Responders, RequestBudgets)

GetResponseAny ==
    /\ pc = "get_response"
    /\ \E o \in LLMOutcomes(KeywordReplies, RequestErrors) : GetResponse(o)

SearchRequest ==
    /\ pc = "search"
    /\ \E o \in StoreOutcomesOver(RequestDocPool, SearchK(chunks_per_keyword)) : Search(o)

GetDirectResponseAny ==
    /\ pc = "direct"
    /\ \E o \in LLMOutcomes(AnswerReplies, RequestErrors) : GetDirectResponse(o)

GetContextualResponseAny ==
    /\ pc = "contextual"
    /\ \E o \in LLMOutcomes(AnswerReplies, RequestErrors) : GetContextualResponse(o)

Next ==
    \/ GetResponseAny
    \/ FindChunks
    \/ SearchRequest
    \/ FirstPass
    \/ SecondPass
    \/ Retrieved
    \/ GetDirectResponseAny
    \/ GetContextualResponseAny

Spec == Init /\ [][Next]_vars

(***************************************************************************)
(* Request after request to the same responder.  The variables that stand  *)
(* for the locals of get_response and find_chunks outlive the call here,   *)
(* as attributes of the object would: what a finished call left in them is *)
(* still there when the next call begins.  The records of the exchanges    *)
(* with the collaborators (llm_calls, searches) and the returned value are *)
(* per request.                                                            *)
(***************************************************************************)
SessionQueries == {<<"What is X?">>, <<"Why?">>}

SessionBudgets == {1, 2}

SessionKeywordReplies == {<<>>, <<"a">>, <<"a", ",", "b">>}

SessionAnswerReplies == {<<"x">>, <<"<answer>", "x", "</answer>">>}

SessionErrors == {"none", "request"}

InitSession == RequestInit(Responders, SessionBudgets)

\* the caller calls get_response again
GetResponseAgain ==
    /\ pc = "done"
    /\ pc' = "get_response"
    /\ query' \in SessionQueries
    /\ display_context' \in BOOLEAN
    /\ num_chunks' \in SessionBudgets
    /\ llm_calls' = <<>>
    /\ searches' = <<>>
    /\ result' = [type |-> "none"]
    /\ UNCHANGED <<self, keywords_str, response, context>>
    /\ UNCHANGED <<keywords, keyword_list, chunks_per_keyword, extra_chunks, keyword_docs,
                   idx, added, combined_docs, seen_content, chunks>>
    /\ UNCHANGED envVars
    /\ UNCHANGED agentVars

GetResponseSession ==
    /\ pc = "get_response"
    /\ \E o \in LLMOutcomes(SessionKeywordReplies, SessionErrors) : GetResponse(o)

GetDirectResponseSession ==
    /\ pc = "direct"
    /\ \E o \in LLMOutcomes(SessionAnswerReplies, SessionErrors) : GetDirectResponse(o)

GetContextualResponseSession ==
    /\ pc = "contextual"
    /\ \E o \in LLMOutcomes(SessionAnswerReplies, SessionErrors) : GetContextualResponse(o)

NextSession ==
    \/ GetResponseSession
    \/ FindChunks
    \/ SearchRequest
    \/ FirstPass
    \/ SecondPass
    \/ Retrieved
    \/ GetDirectResponseSession
    \/ GetContextualResponseSession
    \/ GetResponseAgain

SpecSession == InitSession /\ [][NextSession]_vars

(***************************************************************************)
(* The same requests, the backend also free to deliver a reply without     *)
(* text.                                                                   *)
(***************************************************************************)
RequestFaults == RequestErrors \cup {NullContent}

GetResponseFaulty ==
    /\ pc = "get_response"
    /\ \E o \in LLMOutcomes(KeywordReplies, RequestFaults) : GetResponse(o)

GetDirectResponseFaulty ==
    /\ pc = "direct"
    /\ \E o \in LLMOutcomes(AnswerReplies, RequestFaults) : GetDirectResponse(o)

GetContextualResponseFaulty ==
    /\ pc = "contextual"
    /\ \E o \in LLMOutcomes(AnswerReplies, RequestFaults) : GetContextualResponse(o)

NextFaults ==
    \/ GetResponseFaulty
    \/ FindChunks
    \/ SearchRequest
    \/ FirstPass
    \/ SecondPass
    \/ Retrieved
    \/ GetDirectResponseFaulty
    \/ GetContextualResponseFaulty

SpecFaults == Init /\ [][NextFaults]_vars

(***************************************************************************)
(* Answer extraction: requests whose keyword reply is "a", whose one       *)
(* search returns nothing or one passage, and whose answer reply is any    *)
(* text of at most MaxReplyLen tokens.  With one keyword extra_chunks is   *)
(* 0, so the second pass never runs.                                       *)
(***************************************************************************)
AnswerTokens == {"<answer>", "</answer>", "Answer:", "Response:", "answer:", " ", "x"}

AnyAnswerReplies == SeqsUpTo(AnswerTokens, MaxReplyLen)

InitExtract == RequestInit({Responder("llama3:8b", "ollama", FALSE)}, {DefaultNumChunks})

GetResponseOne == GetResponse([text |-> <<"a">>, error |-> "none"])

SearchOne ==
    /\ pc = "search"
    /\ \E d \in {<<>>, <<Doc(<<"p1">>)>>} : Search([raised |-> FALSE, docs |-> d])

GetDirectResponseText ==
    /\ pc = "direct"
    /\ \E o \in LLMOutcomes(AnyAnswerReplies, {"none"}) : GetDirectResponse(o)

GetContextualResponseText ==
    /\ pc = "contextual"
    /\ \E o \in LLMOutcomes(AnyAnswerReplies, {"none"}) : GetContextualResponse(o)

NextExtract ==
    \/ GetResponseOne
    \/ FindChunks
    \/ SearchOne
    \/ FirstPass
    \/ Retrieved
    \/ GetDirectResponseText
    \/ GetContextualResponseText

SpecExtract == InitExtract /\ [][NextExtract]_vars

(***************************************************************************)
(* The responder from its construction on: the store is reachable or not   *)
(* when ContextualResponder(...) is called; the caller makes a request on  *)
(* the instance it got, if it got one.                                     *)
(***************************************************************************)
InitConstruct ==
    /\ pc = "construct"
    /\ self = NoResponder
    /\ store_reachable \in BOOLEAN
    /\ stream = <<>>
    /\ line_no = 0
    /\ fragments = <<>>
    /\ NoWorker
    /\ query \in Queries
    /\ display_context \in BOOLEAN
    /\ num_chunks \in RequestBudgets
    /\ keywords = <<>>
    /\ FindChunksLocalsInit
    /\ llm_calls = <<>>
    /\ keywords_str = <<>>
    /\ response = <<>>
    /\ context = <<>>
    /\ result = [type |-> "none"]

ConstructAny ==
    /\ pc = "construct"
    /\ \E service_type \in {"ollama", "openai"}, api_key \in BOOLEAN :
          Construct("llama3:8b", service_type, api_key)

NextConstruct ==
    \/ ConstructAny
    \/ Next

SpecConstruct == InitConstruct /\ [][NextConstruct]_vars

(***************************************************************************)
(* ChatService on its own: one chat_sync call, the server sending any      *)
(* stream of at most MaxLines payload lines.                               *)
(***************************************************************************)
InitStream ==
    /\ pc = "chat"
    /\ stream \in SeqsUpTo(PayloadLines, MaxLines)
    /\ line_no = 0
    /\ fragments = <<>>
    /\ store_reachable = TRUE
    /\ NoWorker
    /\ RequestIdle
    /\ keywords = <<>>
    /\ num_chunks = DefaultNumChunks
    /\ FindChunksLocalsInit

NextStream ==
    \/ Chat
    \/ ChatSyncJoin

SpecStream == InitStream /\ [][NextStream]_vars

(***************************************************************************)
(* Keyword extraction: requests whose keyword reply is any text of at most *)
(* MaxReplyLen tokens, followed until find_chunks has dropped the empty    *)
(* keywords and searched for the others.                                   *)
(***************************************************************************)
KeywordTokens == {"<keywords>", "</keywords>", ",", " ", "a"}

AnyKeywordReplies == SeqsUpTo(KeywordTokens, MaxReplyLen)

InitKeywords == RequestInit({Responder("llama3:8b", "ollama", FALSE)}, {DefaultNumChunks})

GetResponseText ==
    /\ pc = "get_response"
    /\ \E o \in LLMOutcomes(AnyKeywordReplies, {"none"}) : GetResponse(o)

NextKeywords ==
    \/ GetResponseText
    \/ FindChunks
    \/ SearchOne

SpecKeywords == InitKeywords /\ [][NextKeywords]_vars

(***************************************************************************)
(* Context assembly and the answer prompt: _build_context_from_chunks and  *)
(* _get_contextual_response called with any list of at most MaxPassages    *)
(* passages, among them an empty passage and passages whose text is one of *)
(* the template's placeholders.                                            *)
(***************************************************************************)
PromptDocPool ==
    {Doc(<<"p1">>), Doc(<<>>), Doc(<<"{{USER_QUERY}}">>), Doc(<<"{{CONTEXT}}">>)}

PromptQueries == {<<"What is X?">>, <<"{{CONTEXT}}">>}

InitPrompt ==
    /\ pc = "build_context"
    /\ self = Responder("llama3:8b", "ollama", FALSE)
    /\ query \in PromptQueries
    /\ display_context \in BOOLEAN
    /\ num_chunks = DefaultNumChunks
    /\ chunks \in SeqsUpTo(PromptDocPool, MaxPassages)
    /\ keywords = <<>>
    /\ keyword_list = <<>>
    /\ chunks_per_keyword = 0
    /\ extra_chunks = 0
    /\ keyword_docs = <<>>
    /\ idx = 1
    /\ added = 0
    /\ combined_docs = <<>>
    /\ seen_content = {}
    /\ searches = <<>>
    /\ llm_calls = <<>>
    /\ keywords_str = <<>>
    /\ response = <<>>
    /\ context = <<>>
    /\ result = [type |-> "none"]
    /\ EnvInit

GetContextualResponsePrompt ==
    /\ pc = "contextual"
    /\ \E o \in LLMOutcomes(AnswerReplies, {"none"}) : GetContextualResponse(o)

NextPrompt ==
    \/ BuildContext
    \/ GetContextualResponsePrompt

SpecPrompt == InitPrompt /\ [][NextPrompt]_vars

(***************************************************************************)
(* DocumentProcessingWorker (src/agent.py) with get_new_files_delta        *)
(* (src/documents_watcher.py) and convert_document_to_markdown             *)
(* (src/document_converter.py).                                            *)
(*                                                                         *)
(* A file name is a record of what os.path.splitext makes of it: its stem  *)
(* and its extension.  start() and stop() are called by threads of the     *)
(* program (callers); every Thread object start() creates is an entry of   *)
(* pollers.  A step is one statement: the interpreter can switch threads   *)
(* between any two statements.                                             *)
(***************************************************************************)
MaxThreads == 2
MaxAttempts == 3

Callers == {"t1", "t2"}

File(stem, ext) == [stem |-> stem, ext |-> ext]

\* os.path.splitext(file)[0] of every file of a listing
Stems(files) == {f.stem : f \in files}

Listed(listing) == {listing[i] : i \in 1..Len(listing)}

\* str.lower() on an extension
Lower(ext) == IF ext = ".PDF" THEN ".pdf" ELSE ext

\* agent.py line 57: filename.lower().endswith('.pdf')
IsPdf(f) == Lower(f.ext) = ".pdf"

\* agent.py lines 60-61: os.path.splitext(filename)[0] + '.md'
OutputFile(f) == File(f.stem, ".md")

\* documents_watcher.py lines 18-33, both directories existing: the input files,
\* in listing order, whose stem is the stem of no output file
RECURSIVE NewFilesDelta(_, _)
NewFilesDelta(listing, out) ==
    IF listing = <<>> THEN <<>>
    ELSE (IF Head(listing).stem \notin Stems(out) THEN <<Head(listing)>> ELSE <<>>)
         \o NewFilesDelta(Tail(listing), out)

\* what one convert_document_to_markdown call can do: write the output and
\* return True; raise inside the try before open() (lines 24-26) and return
\* False; raise after open() has created the output file (line 30) and return
\* False
ConvertOutcomes == {"written", "failed_before_open", "failed_after_open"}

\* document_converter.py lines 17-42: the output directory after the call
OutputAfter(out, f, outcome) ==
    IF outcome = "failed_before_open" THEN out ELSE out \cup {OutputFile(f)}

Poller(at) == [at |-> at, new_files |-> <<>>, file_idx |-> 1]

Alive(i) == pollers[i].at \notin {"new", "dead"}

Caller(at) == [at |-> at, target |-> 0]

AgentFrame == UNCHANGED <<pc, fcVars, reqVars, envVars>>

\* start(), lines 26-28: the test of self.running
Start(c) ==
    /\ callers[c].at = "idle"
    /\ IF running
       THEN UNCHANGED callers
       ELSE /\ Len(pollers) + Cardinality({d \in Callers : callers[d].at \in {"start_30", "start_31"}})
                 < MaxThreads
            /\ callers' = [callers EXCEPT ![c].at = "start_30"]
    /\ UNCHANGED <<running, thread, pollers, input_files, output_files, attempts>>
    /\ AgentFrame

\* start(), line 30
StartSetRunning(c) ==
    /\ callers[c].at = "start_30"
    /\ running' = TRUE
    /\ callers' = [callers EXCEPT ![c].at = "start_31"]
    /\ UNCHANGED <<thread, pollers, input_files, output_files, attempts>>
    /\ AgentFrame

\* start(), line 31: a new Thread object, assigned to self.thread
StartCreateThread(c) ==
    /\ callers[c].at = "start_31"
    /\ pollers' = Append(pollers, Poller("new"))
    /\ thread' = Len(pollers) + 1
    /\ callers' = [callers EXCEPT ![c].at = "start_32"]
    /\ UNCHANGED <<running, input_files, output_files, attempts>>
    /\ AgentFrame

\* start(), line 32: self.thread.daemon = True raises RuntimeError on a thread
\* that has been started
StartSetDaemon(c) ==
    /\ callers[c].at = "start_32"
    /\ callers' = [callers EXCEPT ![c].at =
                      IF pollers[thread].at = "new" THEN "start_33" ELSE "raised"]
    /\ UNCHANGED <<running, thread, pollers, input_files, output_files, attempts>>
    /\ AgentFrame

\* start(), line 33: self.thread.start() raises RuntimeError on a thread that
\* has been started; line 34 and the return
StartThread(c) ==
    /\ callers[c].at = "start_33"
    /\ IF pollers[thread].at = "new"
       THEN /\ pollers' = [pollers EXCEPT ![thread].at = "test"]
            /\ callers' = [callers EXCEPT ![c].at = "idle"]
       ELSE /\ callers' = [callers EXCEPT ![c].at = "raised"]
            /\ UNCHANGED pollers
    /\ UNCHANGED <<running, thread, input_files, output_files, attempts>>
    /\ AgentFrame

\* stop(), lines 37-39: the test of self.running
Stop(c) ==
    /\ callers[c].at = "idle"
    /\ IF running
       THEN callers' = [callers EXCEPT ![c].at = "stop_41"]
       ELSE UNCHANGED callers
    /\ UNCHANGED <<running, thread, pollers, input_files, output_files, attempts>>
    /\ AgentFrame

\* stop(), line 41
StopClearRunning(c) ==
    /\ callers[c].at = "stop_41"
    /\ running' = FALSE
    /\ callers' = [callers EXCEPT ![c].at = "stop_42"]
    /\ UNCHANGED <<thread, pollers, input_files, output_files, attempts>>
    /\ AgentFrame

\* stop(), lines 42-43: self.thread is read and join() is entered; join()
\* raises RuntimeError on a thread that has not been started
StopReadThread(c) ==
    /\ callers[c].at = "stop_42"
    /\ callers' = [callers EXCEPT ![c] =
                      IF thread = 0 THEN Caller("stop_44")
                      ELSE IF pollers[thread].at = "new" THEN Caller("raised")
                      ELSE [at |-> "stop_43", target |-> thread]]
    /\ UNCHANGED <<running, thread, pollers, input_files, output_files, attempts>>
    /\ AgentFrame

\* stop(), line 43: join() returns once the thread has ended
StopJoin(c) ==
    /\ callers[c].at = "stop_43"
    /\ pollers[callers[c].target].at = "dead"
    /\ callers' = [callers EXCEPT ![c].at = "stop_44"]
    /\ UNCHANGED <<running, thread, pollers, input_files, output_files, attempts>>
    /\ AgentFrame

\* stop(), line 44 and the return
StopReturn(c) ==
    /\ callers[c].at = "stop_44"
    /\ callers' = [callers EXCEPT ![c] = Caller("idle")]
    /\ UNCHANGED <<running, thread, pollers, input_files, output_files, attempts>>
    /\ AgentFrame

\* _run(), line 47: the test of the while loop
RunTest(i) ==
    /\ pollers[i].at = "test"
    /\ pollers' = [pollers EXCEPT ![i].at = IF running THEN "delta" ELSE "dead"]
    /\ UNCHANGED <<running, thread, callers, input_files, output_files, attempts>>
    /\ AgentFrame

\* _run(), lines 50-53 and 76-77
GetNewFilesDelta(i) ==
    /\ pollers[i].at = "delta"
    /\ LET new_files == NewFilesDelta(input_files, output_files)
       IN pollers' = [pollers EXCEPT ![i] =
                         [at |-> IF new_files = <<>> THEN "sleep" ELSE "convert",
                          new_files |-> new_files, file_idx |-> 1]]
    /\ UNCHANGED <<running, thread, callers, input_files, output_files, attempts>>
    /\ AgentFrame

\* _run(), lines 55-75: one iteration of the for loop, the conversion ending
\* with `outcome`
ConvertNext(i, outcome) ==
    /\ pollers[i].at = "convert"
    /\ LET filename == pollers[i].new_files[pollers[i].file_idx]
       IN IF IsPdf(filename)
          THEN /\ Len(attempts) < MaxAttempts
               /\ output_files' = OutputAfter(output_files, filename, outcome)
               /\ attempts' = Append(attempts, [file |-> filename,
                                                success |-> outcome = "written"])
          ELSE UNCHANGED <<output_files, attempts>>
    /\ pollers' = [pollers EXCEPT ![i] =
                      IF pollers[i].file_idx < Len(pollers[i].new_files)
                      THEN [@ EXCEPT !.file_idx = @ + 1]
                      ELSE [@ EXCEPT !.at = "sleep"]]
    /\ UNCHANGED <<running, thread, callers, input_files>>
    /\ AgentFrame

\* _run(), line 82
Sleep(i) ==
    /\ pollers[i].at = "sleep"
    /\ pollers' = [pollers EXCEPT ![i].at = "test"]
    /\ UNCHANGED <<running, thread, callers, input_files, output_files, attempts>>
    /\ AgentFrame

\* _run() with nothing to convert
RunIdle(i) ==
    \/ RunTest(i)
    \/ GetNewFilesDelta(i)
    \/ Sleep(i)

\* no request to the responder under way
NoPipeline ==
    /\ pc = "agent"
    /\ keywords = <<>>
    /\ num_chunks = DefaultNumChunks
    /\ FindChunksLocalsInit
    /\ RequestIdle
    /\ store_reachable = TRUE
    /\ stream = <<>>
    /\ line_no = 0
    /\ fragments = <<>>

(***************************************************************************)
(* A worker, just constructed, whose start() and stop() are called by two  *)
(* threads; nothing to convert.  Every thread that can take a step         *)
(* eventually takes one; no thread is bound to call start() or stop().     *)
(***************************************************************************)
InitWorker ==
    /\ NoPipeline
    /\ running = FALSE
    /\ thread = 0
    /\ pollers = <<>>
    /\ callers = [c \in Callers |-> Caller("idle")]
    /\ input_files = <<>>
    /\ output_files = {}
    /\ attempts = <<>>

StartStep(c) ==
    \/ StartSetRunning(c)
    \/ StartCreateThread(c)
    \/ StartSetDaemon(c)
    \/ StartThread(c)

StopStep(c) ==
    \/ StopClearRunning(c)
    \/ StopReadThread(c)
    \/ StopJoin(c)
    \/ StopReturn(c)

NextWorker ==
    \/ \E c \in Callers : Start(c)
    \/ \E c \in Callers : Stop(c)
    \/ \E c \in Callers : StartStep(c)
    \/ \E c \in Callers : StopStep(c)
    \/ \E i \in 1..Len(pollers) : RunIdle(i)

SpecWorker ==
    /\ InitWorker
    /\ [][NextWorker]_vars
    /\ \A c \in Callers : WF_vars(StartStep(c)) /\ WF_vars(StopStep(c))
    /\ \A i \in 1..MaxThreads : WF_vars(i <= Len(pollers) /\ RunIdle(i))

(***************************************************************************)
(* One polling thread of a started worker over an input directory that     *)
(* holds some of a.pdf, a.PDF, b.pdf and c.txt.                            *)
(***************************************************************************)
InputPool == << File("a", ".pdf"), File("a", ".PDF"), File("b", ".pdf"), File("c", ".txt") >>

InputListings == {SubSeqAt(InputPool, I) : I \in SUBSET (1..Len(InputPool))}

InitPolling ==
    /\ NoPipeline
    /\ running = TRUE
    /\ thread = 1
    /\ pollers = << Poller("test") >>
    /\ callers = [c \in Callers |-> Caller("idle")]
    /\ input_files \in InputListings
    /\ output_files \in {{}, {File("b", ".md")}}
    /\ attempts = <<>>

NextPolling ==
    \/ RunTest(1)
    \/ GetNewFilesDelta(1)
    \/ \E outcome \in ConvertOutcomes : ConvertNext(1, outcome)
    \/ Sleep(1)

SpecPolling == InitPolling /\ [][NextPolling]_vars

(***************************************************************************)
(* find_chunks computed in one go from the keyword list, the budget and    *)
(* the docs each search returned: the reference the runs are compared to.  *)
(***************************************************************************)
RECURSIVE RefDict(_, _, _)
RefDict(kl, res, d) ==
    IF kl = <<>> THEN d
    ELSE RefDict(Tail(kl), Tail(res), DictSet(d, Head(kl), FilterPlaceholder(Head(res))))

RECURSIVE RefFirst(_, _, _)
RefFirst(d, out, cpk) ==
    IF d = <<>> THEN out
    ELSE RefFirst(Tail(d), out \o TakeUnseen(Head(d).docs, Contents(out), cpk), cpk)

RECURSIVE RefSecond(_, _, _)
RefSecond(d, out, extra) ==
    IF d = <<>> \/ extra <= 0 THEN out
    ELSE LET t == TakeUnseen(Head(d).docs, Contents(out), extra)
         IN RefSecond(Tail(d), out \o t, extra - Len(t))

RefFindChunks(kl, n, res) ==
    LET d == RefDict(kl, res, <<>>)
    IN RefSecond(d, RefFirst(d, <<>>, Max(1, n \div Len(kl))), n % Len(kl))

NoDuplicateContent(docs) ==
    \A i, j \in 1..Len(docs) : docs[i].page_content = docs[j].page_content => i = j

Allocated == pc \in {"search", "first_pass", "second_pass", "returned"} /\ keyword_list # <<>>

(***************************************************************************)
(* C1: for every non-empty keyword list and every integer budget B,        *)
(* find_chunks returns at most B passages and no two returned passages     *)
(* have equal content.  Stated here for the budgets B >= 1 alone: the code *)
(* returns more than B passages whenever there are more keywords than B,   *)
(* as max(1, ...) gives every keyword a share of one.                      *)
(***************************************************************************)
C1_AtMostBudgetAndUnique ==
    (pc = "returned" /\ keyword_list # <<>> /\ num_chunks >= 1) =>
        /\ Len(chunks) <= num_chunks
        /\ NoDuplicateContent(chunks)

(***************************************************************************)
(* C8: for n non-empty keywords and a budget B with n <= B, perKeyword is  *)
(* max(1, B div n), that is the q >= 1 with q*n <= B < (q+1)*n, and the    *)
(* first pass adds at most perKeyword passages from any one keyword's      *)
(* result list.                                                            *)
(***************************************************************************)
C8_PerKeywordShare ==
    (Allocated /\ Len(keyword_list) <= num_chunks) =>
        /\ chunks_per_keyword >= 1
        /\ chunks_per_keyword * Len(keyword_list) <= num_chunks
        /\ num_chunks < (chunks_per_keyword + 1) * Len(keyword_list)
        /\ added <= chunks_per_keyword
        /\ pc \in {"second_pass", "returned"} =>
               Len(combined_docs) - ((num_chunks % Len(keyword_list)) - extra_chunks)
                   <= chunks_per_keyword * Len(keyword_docs)

\* the first pass met its cap on a list that held more than perKeyword docs
C8_Witness ==
    /\ Allocated /\ Len(keyword_list) <= num_chunks
    /\ pc = "second_pass"
    /\ added = chunks_per_keyword
    /\ Len(keyword_docs) >= 2
    /\ Len(keyword_docs[Len(keyword_docs)].docs) > chunks_per_keyword

(***************************************************************************)
(* C9: when the search for one keyword raises, find_chunks still searches  *)
(* every later keyword, and returns exactly the passages it would return   *)
(* had the failed search produced an empty result list.                    *)
(***************************************************************************)
C9_FailedSearchIsEmptyResult ==
    (pc = "returned" /\ keyword_list # <<>>) =>
        /\ Len(searches) = Len(keyword_list)
        /\ \A i \in 1..Len(searches) : searches[i].keyword = keyword_list[i]
        /\ chunks = RefFindChunks(keyword_list, num_chunks,
                        [i \in 1..Len(searches) |->
                            IF searches[i].raised THEN <<>> ELSE searches[i].docs])

\* a search raised, a later one succeeded, and its passages were returned
C9_Witness ==
    /\ pc = "returned"
    /\ \E i, j \in 1..Len(searches) :
          /\ i < j
          /\ searches[i].raised
          /\ ~searches[j].raised
          /\ searches[j].docs # <<>>
    /\ chunks # <<>>

(***************************************************************************)
(* C7: for keywords ["alpha", "beta", "gamma"] and budget 10, perKeyword   *)
(* is 3 and remainder is 1, and whenever each keyword's store query        *)
(* returns at least 3 unique passages, find_chunks returns exactly 10.     *)
(* "Unique" is read in the claim's favour: the passages are usable (not    *)
(* the placeholder) and no content occurs twice within or across the       *)
(* three result lists.                                                     *)
(***************************************************************************)
RECURSIVE AllItemDocs(_)
AllItemDocs(d) == IF d = <<>> THEN <<>> ELSE Head(d).docs \o AllItemDocs(Tail(d))

ScenarioAllocation ==
    (pc \in {"search", "first_pass"}) => (chunks_per_keyword = 3 /\ extra_chunks = 1)

ThreeUniqueEach ==
    /\ pc = "returned"
    /\ Len(keyword_docs) = 3
    /\ \A i \in 1..3 : Len(keyword_docs[i].docs) >= 3
    /\ NoDuplicateContent(AllItemDocs(keyword_docs))

\* the claim as stated
C7_ExactlyTen ==
    /\ ScenarioAllocation
    /\ ThreeUniqueEach => Len(chunks) = 10

\* the claim as amended: the tenth passage needs a fourth passage in some list
C7_TenIffAFourth ==
    /\ ScenarioAllocation
    /\ ThreeUniqueEach =>
          Len(chunks) = (IF \E i \in 1..3 : Len(keyword_docs[i].docs) >= 4 THEN 10 ELSE 9)

\* three unique passages each, a fourth for the last keyword only, ten returned
C7_Witness ==
    /\ ThreeUniqueEach
    /\ Len(keyword_docs[1].docs) = 3
    /\ Len(keyword_docs[2].docs) = 3
    /\ Len(keyword_docs[3].docs) = 4
    /\ Len(chunks) = 10

(***************************************************************************)
(* Reading a finished request.                                             *)
(***************************************************************************)
Done == pc = "done"

LastCall == llm_calls[Len(llm_calls)]

\* the request ended in _get_direct_response / in _get_contextual_response
EndedDirect == Done /\ LastCall.system_message = SystemMessage
EndedContextual == Done /\ LastCall.system_message = "None"

Has(s, T) == \E i \in 1..Len(s) : s[i] \in T

\* the first position at or after `from` that holds a token of T
FirstAt(s, T, from) ==
    CHOOSE i \in from..Len(s) : s[i] \in T /\ \A j \in from..(i - 1) : s[j] \notin T

\* the response holds <answer>X</answer>; X is the text between the first
\* <answer> and the first </answer> after it
HasAnswerTag(s) ==
    \E i, j \in 1..Len(s) : i < j /\ s[i] = "<answer>" /\ s[j] = "</answer>"

AnswerTagContent(s) ==
    LET i == FirstAt(s, {"<answer>"}, 1)
        j == FirstAt(s, {"</answer>"}, i + 1)
    IN SubSeq(s, i + 1, j - 1)

Markers == {"Answer:", "Response:"}

AfterFirstMarker(s) == SubSeq(s, FirstAt(s, Markers, 1) + 1, Len(s))

Blank(s) == \A i \in 1..Len(s) : s[i] \in {" ", "\n"}

\* s without its leading and trailing blanks
Trimmed(s) ==
    IF Blank(s) THEN <<>>
    ELSE LET a == CHOOSE i \in 1..Len(s) :
                      s[i] \notin {" ", "\n"} /\ \A j \in 1..(i - 1) : s[j] \in {" ", "\n"}
             b == CHOOSE i \in 1..Len(s) :
                      s[i] \notin {" ", "\n"} /\ \A j \in (i + 1)..Len(s) : s[j] \in {" ", "\n"}
         IN SubSeq(s, a, b)

(***************************************************************************)
(* C2: when every keyword handed to find_chunks is the empty string (or    *)
(* there is none), find_chunks returns an empty sequence without any       *)
(* similarity_search call, and get_response takes the direct-answer        *)
(* branch.                                                                 *)
(***************************************************************************)
AllKeywordsEmpty == \A i \in 1..Len(keywords) : keywords[i] = <<>>

C2_NoKeywordsNoSearch ==
    (pc \notin {"get_response", "find_chunks"} /\ AllKeywordsEmpty) =>
        /\ pc \in {"returned", "direct", "done"}
        /\ chunks = <<>>
        /\ searches = <<>>
        /\ Done => (EndedDirect /\ Len(llm_calls) = 2)

\* a request whose keyword reply split into two empty keywords was answered
C2_Witness ==
    /\ Done
    /\ Len(keywords) >= 2
    /\ AllKeywordsEmpty
    /\ result.type # "none"

(***************************************************************************)
(* C3: every get_response call on a constructed responder runs to          *)
(* completion and returns an answer or an (answer, prompt) pair, whatever  *)
(* searches and LLM calls fail: no exception leaves get_response.  It      *)
(* holds of Spec, where a failed call is an exception inside the client;   *)
(* it fails in SpecFaults, where the backend may reply without text: the   *)
(* None reaches re.search (OpenAI) or str.join (Ollama) and a TypeError    *)
(* leaves get_response.                                                    *)
(***************************************************************************)
C3_AlwaysAnswers ==
    /\ pc # "raised"
    /\ ~Done => ENABLED Next
    /\ Done => /\ result.type = (IF display_context THEN "tuple" ELSE "str")
               /\ result.answer \in Seq(STRING)

(***************************************************************************)
(* C10: when the store yields no usable passage for any keyword,           *)
(* get_response makes exactly one further LLM call, with the raw query as  *)
(* user content and the fixed system instruction, returns that call's      *)
(* output unmodified, and with display_context the returned prompt is the  *)
(* system instruction and the query only, without a context block.         *)
(***************************************************************************)
Unusable(docs) ==
    \A j \in 1..Len(docs) : Has(docs[j].page_content, {PlaceholderText})

NoUsablePassage ==
    /\ searches # <<>>
    /\ \A i \in 1..Len(searches) : searches[i].raised \/ Unusable(searches[i].docs)

C10_DirectAnswer ==
    (Done /\ NoUsablePassage) =>
        /\ Len(llm_calls) = 2
        /\ llm_calls[2].user_prompt = query
        /\ llm_calls[2].system_message = SystemMessage
        /\ result.answer = response
        /\ context = <<>>
        /\ display_context =>
              /\ result.type = "tuple"
              /\ result.prompt = <<"System: ", SystemMessage, "\n\nUser: ">> \o query
              /\ ~Has(result.prompt, {"Document "})

\* only the placeholder came back, and the direct answer kept its tags
C10_Witness ==
    /\ Done /\ NoUsablePassage
    /\ display_context
    /\ \E i \in 1..Len(searches) : ~searches[i].raised /\ searches[i].docs # <<>>
    /\ HasAnswerTag(response)
    /\ result.answer = response

C6_RawFallback ==
    /\ (EndedContextual /\ ~HasAnswerTag(response) /\ ~Has(response, Markers)) =>
           result.answer = response
    /\ EndedContextual => result.answer \in Seq(AnswerTokens)

\* a response with blanks at both ends and a lower-case "answer:" comes back whole
C6_Witness ==
    /\ EndedContextual
    /\ response = <<" ", "answer:", "x", " ">>
    /\ result.answer = response

(***************************************************************************)
(* C11: within one request the stages run in the order keyword LLM call,   *)
(* store lookups, context build, answer LLM call.  No lookup starts before *)
(* the keyword call has returned, the context is built and the answer call *)
(* is made only after every lookup has finished, and no step leads back to *)
(* an earlier stage.                                                       *)
(***************************************************************************)
Stage(p) ==
    CASE p = "get_response" -> 1
      [] p \in {"find_chunks", "search", "first_pass", "second_pass", "returned"} -> 2
      [] p \in {"direct", "contextual"} -> 3
      [] OTHER -> 4

LookupsFinished == pc = "returned" /\ Len(searches) = Len(keyword_list)

C11_StagesInOrder ==
    [][/\ Stage(pc') >= Stage(pc)
       /\ (searches' # searches) =>
              /\ Len(llm_calls) = 1
              /\ llm_calls' = llm_calls
       /\ (context' # context) =>
              /\ LookupsFinished
              /\ Len(llm_calls) = 1
              /\ llm_calls' = llm_calls
              /\ searches' = searches
       /\ (llm_calls' # llm_calls /\ llm_calls # <<>>) =>
              /\ Len(llm_calls) = 1
              /\ Len(searches) = Len(keyword_list)
              /\ searches' = searches
              /\ context' = context
              /\ chunks # <<>> => context # <<>>]_vars

\* two lookups between the keyword call and the answer call over the built context
C11_Witness ==
    /\ EndedContextual
    /\ Len(llm_calls) = 2
    /\ Len(searches) = 2
    /\ context # <<>>

(***************************************************************************)
(* C12: get_response returns a bare answer string when display_context is  *)
(* false and a pair (answer, full prompt) when it is true, on the          *)
(* contextual and on the direct branch alike; the answer is determined by  *)
(* the branch taken and the model's response, so it is the same in both    *)
(* modes.  The full prompt is the prompt sent on the contextual branch and *)
(* the "System: ... User: ..." text on the direct branch.                  *)
(***************************************************************************)
\* the answer read off a response: non-blank tag content, else non-blank text
\* after the first marker, else the response itself
AnswerIn(s) ==
    IF HasAnswerTag(s) /\ ~Blank(AnswerTagContent(s)) THEN Trimmed(AnswerTagContent(s))
    ELSE IF Has(s, Markers) /\ ~Blank(AfterFirstMarker(s)) THEN Trimmed(AfterFirstMarker(s))
    ELSE s

C12_StringOrPair ==
    Done =>
        /\ result.type = (IF display_context THEN "tuple" ELSE "str")
        /\ DOMAIN result = (IF display_context THEN {"type", "answer", "prompt"}
                            ELSE {"type", "answer"})
        /\ result.answer = (IF chunks = <<>> THEN response ELSE AnswerIn(response))
        /\ display_context =>
               result.prompt = (IF chunks = <<>>
                                THEN <<"System: ", SystemMessage, "\n\nUser: ">> \o query
                                ELSE LastCall.user_prompt)

\* a pair on the contextual branch whose answer is the extracted text
C12_Witness ==
    /\ EndedContextual
    /\ display_context
    /\ response = <<"<answer>", "x", "</answer>">>
    /\ result.type = "tuple"
    /\ result.answer = <<"x">>

(***************************************************************************)
(* C13: the context built from passages p1..pm is the blocks               *)
(* "Document i:\n<content of pi>\n" for i = 1..m in input order, numbered  *)
(* from 1, with one "\n" between consecutive blocks (a blank line); it is  *)
(* the empty text for no passages; it is a function of the passage         *)
(* sequence alone, so building it again gives the same text.               *)
(***************************************************************************)
Block(docs, i) == <<"Document ", ToString(i), ":\n">> \o docs[i].page_content \o <<"\n">>

\* the first m blocks, a "\n" before every block but the first
RECURSIVE Blocks(_, _)
Blocks(docs, m) ==
    IF m = 0 THEN <<>>
    ELSE Blocks(docs, m - 1) \o (IF m > 1 THEN <<"\n">> ELSE <<>>) \o Block(docs, m)

ContextBuilt == pc \in {"contextual", "done"}

C13_ContextBlocks ==
    ContextBuilt =>
        /\ context = Blocks(chunks, Len(chunks))
        /\ chunks = <<>> => context = <<>>
        /\ BuildContextFromChunks(chunks) = context

\* three passages, the second one empty
C13_Witness ==
    /\ pc = "contextual"
    /\ chunks = <<Doc(<<"p1">>), Doc(<<>>), Doc(<<"p1">>)>>
    /\ context = <<"Document ", "1", ":\n", "p1", "\n", "\n",
                   "Document ", "2", ":\n", "\n", "\n",
                   "Document ", "3", ":\n", "p1", "\n">>

(***************************************************************************)
(* C18: the answer prompt is the answer template with {{CONTEXT}} replaced *)
(* by the context block and {{USER_QUERY}} by the query, each inserted as  *)
(* it is: the context block stands in the prompt unchanged, also when a    *)
(* passage's content holds the text {{USER_QUERY}} or {{CONTEXT}}.  The    *)
(* code substitutes {{USER_QUERY}} in the text that already holds the      *)
(* context, so a passage's {{USER_QUERY}} is replaced by the query.        *)
(***************************************************************************)
C18_ContextVerbatim ==
    EndedContextual =>
        LastCall.user_prompt =
            <<"Answer the following question based on the provided context:\n\nContext: ">>
            \o context \o <<"\n\nQuestion: ">> \o query \o <<"\n\nAnswer:">>

(***************************************************************************)
(* C14: with the OpenAI client selected and no API key, no request is      *)
(* aborted: every get_response call returns, and its answer is exactly the *)
(* client's text "Error: No OpenAI API key provided", on the contextual    *)
(* branch and on the direct branch alike.                                  *)
(***************************************************************************)
NoCredential == self.service_type = "openai" /\ ~self.api_key

C14_NoKeyTextIsTheAnswer ==
    NoCredential =>
        /\ pc # "raised"
        /\ ~Done => ENABLED Next
        /\ pc \notin {"get_response"} => keywords_str = NoApiKeyText
        /\ Done => /\ response = NoApiKeyText
                   /\ result.answer = <<"Error:", " ", "No OpenAI API key provided">>

\* the error text served as keyword, a passage came back, the answer is the error text
C14_Witness ==
    /\ NoCredential
    /\ EndedContextual
    /\ chunks # <<>>
    /\ searches[1].keyword = NoApiKeyText
    /\ result.answer = NoApiKeyText

(***************************************************************************)
(* C17: keyword extraction raises on no model output; when the output      *)
(* holds a <keywords> ... </keywords> pair the keywords are the trimmed    *)
(* pieces, cut at the commas, of the text between the first <keywords> and *)
(* the first </keywords> after it, and otherwise they are the trimmed      *)
(* pieces, cut at the commas, of the entire output.                        *)
(***************************************************************************)
Commas(s) == {i \in 1..Len(s) : s[i] = ","}

\* the position of the n-th comma of s; 0 before the first, Len(s) + 1 after the last
NthComma(s, n) ==
    IF n = 0 THEN 0
    ELSE IF n > Cardinality(Commas(s)) THEN Len(s) + 1
    ELSE CHOOSE i \in Commas(s) : Cardinality({j \in Commas(s) : j <= i}) = n

TrimmedPieces(s) ==
    [n \in 1..(Cardinality(Commas(s)) + 1) |->
        Trimmed(SubSeq(s, NthComma(s, n - 1) + 1, NthComma(s, n) - 1))]

HasKeywordsTag(s) ==
    \E i, j \in 1..Len(s) : i < j /\ s[i] = "<keywords>" /\ s[j] = "</keywords>"

KeywordsTagContent(s) ==
    LET i == FirstAt(s, {"<keywords>"}, 1)
        j == FirstAt(s, {"</keywords>"}, i + 1)
    IN SubSeq(s, i + 1, j - 1)

Extracted == pc \notin {"get_response", "raised"}

C17_KeywordPieces ==
    /\ pc # "raised"
    /\ Extracted =>
           keywords = TrimmedPieces(IF HasKeywordsTag(keywords_str)
                                    THEN KeywordsTagContent(keywords_str)
                                    ELSE keywords_str)

\* text before the tag and a blank inside it: the one keyword is the bare word
C17_Witness ==
    /\ Extracted
    /\ keywords_str = <<"a", "<keywords>", " ", "a", "</keywords>">>
    /\ keywords = << <<"a">> >>

(***************************************************************************)
(* C19: every keyword list produced by keyword extraction, for any model   *)
(* output, is an ordered sequence whose elements are all non-empty strings *)
(* without leading or trailing whitespace.                                 *)
(***************************************************************************)
IsTrimmed(s) == s = <<>> \/ (s[1] \notin {" ", "\n"} /\ s[Len(s)] \notin {" ", "\n"})

\* the claim as stated
C19_NonEmptyTrimmed ==
    Extracted => \A i \in 1..Len(keywords) : keywords[i] # <<>> /\ IsTrimmed(keywords[i])

\* the elements of s that are not empty, in order
RECURSIVE WithoutEmpty(_, _)
WithoutEmpty(s, n) ==
    IF n = 0 THEN <<>>
    ELSE WithoutEmpty(s, n - 1) \o (IF s[n] = <<>> THEN <<>> ELSE <<s[n]>>)

\* the claim as amended: the extracted list has at least one element, every
\* element is trimmed and may be empty; find_chunks drops the empty elements
\* before it searches, so each keyword searched is non-empty and trimmed
C19_TrimmedThenFiltered ==
    Extracted =>
        /\ Len(keywords) >= 1
        /\ \A i \in 1..Len(keywords) : IsTrimmed(keywords[i])
        /\ pc # "find_chunks" =>
               /\ keyword_list = WithoutEmpty(keywords, Len(keywords))
               /\ \A i \in 1..Len(keyword_list) :
                      keyword_list[i] # <<>> /\ IsTrimmed(keyword_list[i])
               /\ \A i \in 1..Len(searches) : searches[i].keyword # <<>>

\* "a, ,a": an empty keyword between two trimmed ones, dropped before the search
C19_Witness ==
    /\ pc = "first_pass"
    /\ Len(searches) = 2
    /\ keywords_str = <<"a", ",", " ", ",", "a">>
    /\ keywords = << <<"a">>, <<>>, <<"a">> >>
    /\ keyword_list = << <<"a">>, <<"a">> >>

(***************************************************************************)
(* C20: the filtering step removes a passage exactly when its content      *)
(* equals the placeholder text; a passage with any other content, one that *)
(* holds the placeholder sentence inside longer text included, is kept.    *)
(* The code tests containment, so it removes the quoting passage too.      *)
(***************************************************************************)
\* the docs whose content is not the placeholder text itself, in order
RECURSIVE WithoutSentinel(_, _)
WithoutSentinel(docs, n) ==
    IF n = 0 THEN <<>>
    ELSE WithoutSentinel(docs, n - 1) \o
         (IF docs[n].page_content = <<PlaceholderText>> THEN <<>> ELSE <<docs[n]>>)

LastSearch == searches[Len(searches)]

\* the docs recorded for keyword k in keyword_docs
DocsOf(k) == keyword_docs[CHOOSE i \in 1..Len(keyword_docs) : keyword_docs[i].keyword = k].docs

ByQuery == pc = "returned" /\ keyword_list = <<>> /\ searches # <<>>

C20_RemovesExactlySentinel ==
    /\ (pc \in {"search", "first_pass"} /\ searches # <<>> /\ ~LastSearch.raised) =>
           DocsOf(LastSearch.keyword) = WithoutSentinel(LastSearch.docs, Len(LastSearch.docs))
    /\ (ByQuery /\ ~LastSearch.raised) =>
           chunks = WithoutSentinel(LastSearch.docs, Len(LastSearch.docs))

(***************************************************************************)
(* C15: when the store is unreachable at construction, the construction of *)
(* the ChunkFinder, and with it that of the ContextualResponder, fails     *)
(* with the error passed on to the caller: the caller holds no responder,  *)
(* and no step of get_response (no LLM call, no search) is ever taken.     *)
(***************************************************************************)
C15_NoResponderWithoutStore ==
    ~store_reachable =>
        /\ pc \in {"construct", "construct_raised"}
        /\ self = NoResponder
        /\ llm_calls = <<>> /\ searches = <<>>
        /\ result = [type |-> "none"]
        /\ pc = "construct_raised" => ~ENABLED NextConstruct

\* the constructor has raised
C15_Witness ==
    /\ ~store_reachable
    /\ pc = "construct_raised"
    /\ self = NoResponder

(***************************************************************************)
(* C16: chat and chat_sync of the LLM client raise on no network failure   *)
(* and on no malformed payload: the failure is delivered as an error       *)
(* string that follows the fragments already produced, and chat_sync       *)
(* returns every fragment of the streamed form, the error string included, *)
(* joined.  A line that is no JSON, a JSON value that is no object, a      *)
(* message whose content is null, and a lost connection count as failures  *)
(* here; the code yields the null content as it is and chat_sync raises    *)
(* TypeError when it joins the fragments.                                  *)
(***************************************************************************)
Failures == {"not_json", "not_object", "null_content", "connection_lost"}

ErrorPrefixes == {"Error:", "Error decoding response:", "Unexpected error:"}

IsErrorText(f) == f # <<>> /\ f[1] \in ErrorPrefixes

\* the contents of the message lines among the first n lines, in order
RECURSIVE MessageContents(_, _)
MessageContents(lines, n) ==
    IF n = 0 THEN <<>>
    ELSE MessageContents(lines, n - 1) \o
         (IF lines[n].kind = "message" THEN <<lines[n].content>> ELSE <<>>)

\* fs[1] \o ... \o fs[n]
RECURSIVE Joined(_, _)
Joined(fs, n) == IF n = 0 THEN <<>> ELSE Joined(fs, n - 1) \o fs[n]

FailedLines == {i \in 1..line_no : stream[i].kind \in Failures}

FirstFailedLine == CHOOSE i \in FailedLines : \A j \in FailedLines : i <= j

ChatEnded == pc \in {"chat_sync", "chat_returned", "chat_raised"}

C16_FailuresInBand ==
    /\ pc # "chat_raised"
    /\ (ChatEnded /\ FailedLines # {}) =>
           /\ fragments # <<>>
           /\ IsErrorText(fragments[Len(fragments)])
           /\ SubSeq(fragments, 1, Len(fragments) - 1) =
                  MessageContents(stream, FirstFailedLine - 1)
    /\ (ChatEnded /\ FailedLines = {}) => fragments = MessageContents(stream, line_no)
    /\ pc = "chat_returned" => response = Joined(fragments, Len(fragments))

(***************************************************************************)
(* C21: in the second pass the remainder slots are handed out one at a     *)
(* time across keywords in keyword order: no keyword receives a second     *)
(* extra passage while a later keyword that still has an unused, unseen    *)
(* passage has received none, and the pass stops as soon as the remainder  *)
(* reaches zero.  A step of the second pass is one keyword's turn; the     *)
(* keywords after it have had no turn yet.  The code does stop at zero and *)
(* does walk in keyword order, but one keyword's turn takes unseen         *)
(* passages from its list until the remainder is used up.                  *)
(***************************************************************************)
\* the passages the step gave to the keyword whose turn it is
Given == SubSeq(combined_docs', Len(combined_docs) + 1, Len(combined_docs'))

\* a keyword after the running one has a passage unseen once `seen` is seen
LaterHasUnseen(seen) ==
    \E j \in (idx + 1)..Len(keyword_docs) :
        \E m \in 1..Len(keyword_docs[j].docs) :
            keyword_docs[j].docs[m].page_content \notin seen

SecondPassStep ==
    pc = "second_pass" =>
        /\ Len(Given) >= 2 =>
               ~LaterHasUnseen(seen_content \cup {Given[1].page_content})
        /\ extra_chunks' = 0 => pc' = "returned"
        /\ pc' = "second_pass" => idx' = idx + 1

C21_RemainderOneAtATime == [][SecondPassStep]_vars

(***************************************************************************)
(* C22: the sequence find_chunks returns is all first-pass passages        *)
(* followed by all second-pass passages; within each pass the passages     *)
(* are grouped by keyword in KeywordSet order (a repeated keyword at its   *)
(* first occurrence), and within one keyword they are in the order the     *)
(* store returned them.  The first-pass part holds at most perKeyword      *)
(* passages per keyword, the second-pass part at most remainder in all.    *)
(***************************************************************************)
\* a is b with some elements left out
RECURSIVE IsSubSeq(_, _)
IsSubSeq(a, b) ==
    IF a = <<>> THEN TRUE
    ELSE IF b = <<>> THEN FALSE
    ELSE IF Head(a) = Head(b) THEN IsSubSeq(Tail(a), Tail(b))
    ELSE IsSubSeq(a, Tail(b))

\* the keywords of kl, each at its first occurrence
RECURSIVE FirstOccurrences(_)
FirstOccurrences(kl) ==
    IF kl = <<>> THEN <<>>
    ELSE LET front == FirstOccurrences(SubSeq(kl, 1, Len(kl) - 1))
             last == kl[Len(kl)]
         IN IF \E i \in 1..Len(front) : front[i] = last THEN front ELSE Append(front, last)

\* what the store returned to the last lookup of keyword k, the placeholder aside
LastLookup(k) ==
    LET i == CHOOSE i \in 1..Len(searches) :
                 /\ searches[i].keyword = k
                 /\ \A j \in (i + 1)..Len(searches) : searches[j].keyword # k
    IN IF searches[i].raised THEN <<>> ELSE FilterPlaceholder(searches[i].docs)

\* seq is one group per list, in the lists' order; each group keeps its list's
\* order and has at most `limit` elements
RECURSIVE GroupedBy(_, _, _)
GroupedBy(seq, lists, limit) ==
    IF lists = <<>> THEN seq = <<>>
    ELSE \E n \in 0..Min(Len(seq), limit) :
             /\ IsSubSeq(SubSeq(seq, 1, n), Head(lists))
             /\ GroupedBy(SubSeq(seq, n + 1, Len(seq)), Tail(lists), limit)

ReturnedLists ==
    LET ks == FirstOccurrences(keyword_list)
    IN [i \in 1..Len(ks) |-> LastLookup(ks[i])]

C22_PassThenKeywordOrder ==
    (pc = "returned" /\ keyword_list # <<>>) =>
        LET rem == num_chunks % Len(keyword_list)
        IN \E n \in 0..Len(chunks) :
               /\ Len(chunks) - n <= rem
               /\ GroupedBy(SubSeq(chunks, 1, n), ReturnedLists, chunks_per_keyword)
               /\ GroupedBy(SubSeq(chunks, n + 1, Len(chunks)), ReturnedLists, rem)

\* two first-pass passages of each of three keywords, then two second-pass ones
C22_Witness ==
    /\ pc = "returned"
    /\ keyword_list = << <<"alpha">>, <<"beta">>, <<"gamma">> >>
    /\ chunks = << Doc(<<"alpha", "1">>), Doc(<<"alpha", "2">>),
                   Doc(<<"beta", "1">>), Doc(<<"beta", "2">>),
                   Doc(<<"gamma", "2">>), Doc(<<"gamma", "3">>),
                   Doc(<<"alpha", "3">>), Doc(<<"beta", "3">>) >>

(***************************************************************************)
(* C23: within one find_chunks call no passage is added to the             *)
(* deduplication set or to the result before the store lookup of every     *)
(* keyword has completed or failed; merging starts only after collection   *)
(* has ended.                                                              *)
(***************************************************************************)
Collecting == pc = "search" \/ Len(searches) < Len(keyword_list)

C23_MergeAfterCollection ==
    /\ Collecting => (seen_content = {} /\ combined_docs = <<>> /\ chunks = <<>>)
    /\ pc \in {"first_pass", "second_pass"} =>
           /\ Len(searches) = Len(keyword_list)
           /\ \A i \in 1..Len(searches) : searches[i].keyword = keyword_list[i]

\* a lookup has returned usable passages, another is still to come, nothing merged
C23_Witness ==
    /\ pc = "search"
    /\ idx = 2
    /\ keyword_docs # <<>>
    /\ keyword_docs[1].docs # <<>>
    /\ seen_content = {}
    /\ combined_docs = <<>>

(***************************************************************************)
(* C25: for every keyword list with d distinct non-empty keywords out of n *)
(* non-empty entries and every budget B, find_chunks returns at most       *)
(* d * max(1, B div n) + (B mod n) passages; a keyword whose candidate     *)
(* list runs short is not compensated beyond this bound.                   *)
(***************************************************************************)
DistinctKeywords == {keyword_list[i] : i \in 1..Len(keyword_list)}

SizeBound ==
    Cardinality(DistinctKeywords) * Max(1, num_chunks \div Len(keyword_list))
        + (num_chunks % Len(keyword_list))

C25_AtMostSharesPlusRemainder ==
    (pc = "returned" /\ keyword_list # <<>>) => Len(chunks) <= SizeBound

\* a repeated keyword, the second pass run, and the bound met exactly
C25_Witness ==
    /\ pc = "returned"
    /\ keyword_list # <<>>
    /\ Cardinality(DistinctKeywords) < Len(keyword_list)
    /\ extra_chunks = 0
    /\ num_chunks % Len(keyword_list) > 0
    /\ Len(chunks) = SizeBound

(***************************************************************************)
(* C26: when the same keyword occurs more than once in the KeywordSet,     *)
(* find_chunks issues one store lookup per occurrence but keeps only the   *)
(* result list of the last occurrence, which contributes once, at the      *)
(* position of the keyword's first occurrence, while perKeyword and        *)
(* remainder are computed from the count that includes the repeats.        *)
(***************************************************************************)
\* one entry per distinct keyword, at its first occurrence, with its last result
KeptLists ==
    LET ks == FirstOccurrences(keyword_list)
    IN [i \in 1..Len(ks) |-> [keyword |-> ks[i], docs |-> LastLookup(ks[i])]]

C26_RepeatedKeyword ==
    (pc \in {"first_pass", "second_pass", "returned"} /\ keyword_list # <<>>) =>
        /\ Len(searches) = Len(keyword_list)
        /\ \A i \in 1..Len(searches) :
               /\ searches[i].keyword = keyword_list[i]
               /\ searches[i].k = 2 * chunks_per_keyword
        /\ keyword_docs = KeptLists
        /\ chunks_per_keyword = Max(1, num_chunks \div Len(keyword_list))
        /\ pc = "first_pass" => extra_chunks = num_chunks % Len(keyword_list)
        /\ pc = "returned" =>
               chunks = RefSecond(KeptLists,
                                  RefFirst(KeptLists, <<>>, chunks_per_keyword),
                                  num_chunks % Len(keyword_list))

\* alpha looked up twice with different answers, beta in between: the answer to
\* the second lookup leads the result, the answer to the first is gone
C26_Witness ==
    /\ pc = "returned"
    /\ keyword_list = << <<"alpha">>, <<"beta">>, <<"alpha">> >>
    /\ searches[1].docs = << Doc(<<"alpha", "1">>) >>
    /\ searches[2].docs = << Doc(<<"beta", "1">>) >>
    /\ searches[3].docs = << Doc(<<"alpha", "2">>) >>
    /\ chunks = << Doc(<<"alpha", "2">>), Doc(<<"beta", "1">>) >>

(***************************************************************************)
(* C24: get_response and find_chunks keep no state between calls: after    *)
(* any sequence of requests the responder's model identifier, collection   *)
(* identifier, backend and both prompt templates are unchanged, and the    *)
(* deduplication set of one retrieval call is never visible to another, so *)
(* a request's result depends only on its own arguments and the            *)
(* collaborators' responses to it.                                         *)
(***************************************************************************)
\* the value get_response returns, computed from this request's arguments, the
\* two replies of the model and the store's answers, and from nothing else
OwnResult ==
    LET kl == NonEmpty(ExtractKeywords(keywords_str))
        answers == [i \in 1..Len(searches) |->
                       IF searches[i].raised THEN <<>> ELSE searches[i].docs]
        found == IF kl = <<>> THEN <<>> ELSE RefFindChunks(kl, num_chunks, answers)
    IN IF found = <<>>
       THEN DirectResult(response, query, display_context)
       ELSE Returned(ExtractAnswer(response),
                     ContextPrompt(self, query, BuildContextFromChunks(found)),
                     display_context)

FreshMerge ==
    /\ (pc = "search" /\ idx = 1) => keyword_docs = <<>>
    /\ (pc = "first_pass" /\ idx = 1) => (seen_content = {} /\ combined_docs = <<>>)
    /\ Done => result = OwnResult

C24_NoStateBetweenCalls == []FreshMerge /\ [][self' = self]_vars

\* an earlier call returned a passage and its result is still lying around; the
\* store has returned the same passage to this call, whose merge starts empty
C24_Witness ==
    /\ pc = "first_pass"
    /\ idx = 1
    /\ chunks = << Doc(<<"p1">>) >>
    /\ keyword_docs[1].docs = << Doc(<<"p1">>) >>
    /\ seen_content = {}

(***************************************************************************)
(* C27: for one DocumentProcessingWorker, under every interleaving of      *)
(* start() and stop() calls issued from any threads, at most one polling   *)
(* thread is alive at any time, and every stop() call that finds the       *)
(* worker running eventually returns with that polling thread terminated.  *)
(***************************************************************************)
AlivePollers == {i \in 1..Len(pollers) : Alive(i)}

AtMostOnePolling == Cardinality(AlivePollers) <= 1

\* stop() has found the worker running / has returned, every polling thread ended
StopFoundRunning(c) == callers[c].at = "stop_41"

StopReturned(c) == callers[c].at = "stop_44" /\ AlivePollers = {}

C27_OnePollerAndStopReturns ==
    /\ []AtMostOnePolling
    /\ \A c \in Callers : StopFoundRunning(c) ~> StopReturned(c)

(***************************************************************************)
(* C28: the polling worker converts only files reported by                 *)
(* get_new_files_delta, which are the input-directory files whose          *)
(* extension-stripped name matches no output-directory file: once an input *)
(* PDF has been converted successfully and its .md output exists, no later *)
(* polling cycle converts it again, while a PDF whose conversion failed is *)
(* attempted again in the next cycle.  The next cycle begins with the next *)
(* get_new_files_delta call, and _run attempts every PDF that call         *)
(* reports.                                                                *)
(***************************************************************************)
\* the files whose latest conversion failed
FailedLast ==
    {f \in Listed(input_files) :
        \E j \in 1..Len(attempts) :
            /\ attempts[j].file = f
            /\ ~attempts[j].success
            /\ \A k \in (j + 1)..Len(attempts) : attempts[k].file # f}

NoSecondConversion ==
    \A j, k \in 1..Len(attempts) :
        (j < k /\ attempts[j].success) => attempts[k].file # attempts[j].file

PollingStep ==
    \A i \in 1..Len(pollers) :
        /\ (pollers[i].at = "delta" /\ pollers'[i].at # "delta") =>
               /\ Listed(pollers'[i].new_files) =
                      {f \in Listed(input_files) :
                          \A g \in output_files : g.stem # f.stem}
               /\ FailedLast \subseteq Listed(pollers'[i].new_files)
        /\ (pollers[i].at = "convert" /\ attempts' # attempts) =>
               attempts'[Len(attempts')].file \in Listed(pollers[i].new_files)

C28_ConvertsTheDeltaOnly == []NoSecondConversion /\ [][PollingStep]_vars

====
